---------------------------- MODULE Spec2Model ----------------------------
(***************************************************************************)
(* Model of the Urban-Heat-Island backend (src/app.py): the 7x7 grid       *)
(* sweeps of heatmap_api, ndvi_api and correlation_api over an external    *)
(* measurement provider, their statistics, and the pure functions          *)
(* categorize_heat_stress and generate_recommendations.                    *)
(*                                                                         *)
(* Numbers.  Python floats are modelled by exact arithmetic on integers:   *)
(*   - a temperature is an integer number of thousandths of a degree C,    *)
(*   - an NDVI is an integer number of ten-thousandths,                    *)
(*   - round(x, 2) of a temperature is an integer number of hundredths,    *)
(*   - round(x, 3) of an NDVI or a coefficient is an integer number of     *)
(*     thousandths.                                                        *)
(* The means and standard deviations of heatmap_api and ndvi_api are kept  *)
(* as exact fractions and square roots of fractions and are only compared  *)
(* and rounded, by cross-multiplication.  correlation_api computes in      *)
(* binary64 floats, operation by operation: its result hangs on a float    *)
(* being exactly zero.                                                     *)
(*                                                                         *)
(* Coordinates.  A grid point is recorded by its offsets (dx, dy) from the *)
(* request's centre, in hundredths of a degree: the centre is the same     *)
(* for every cell of a request.                                            *)
(***************************************************************************)
EXTENDS Integers, Sequences, FiniteSets

(***************************************************************************)
(* Unbounded integers.  Python's int and float arithmetic does not wrap at *)
(* 32 bits; sums of squares of 49 values do not fit 32-bit integers.       *)
(* A natural number is a little-endian sequence of base-10000              *)
(* limbs without leading zeros; an integer is a sign and a magnitude.      *)
(***************************************************************************)
RECURSIVE BigOf(_)
BigOf(n) == IF n = 0 THEN <<>> ELSE <<n % 10000>> \o BigOf(n \div 10000)

RECURSIVE BigTrim(_)
BigTrim(a) ==
  IF a = <<>> THEN <<>>
  ELSE IF a[Len(a)] = 0 THEN BigTrim(SubSeq(a, 1, Len(a) - 1))
  ELSE a

RECURSIVE BigAddC(_, _, _)
BigAddC(a, b, c) ==
  IF a = <<>> /\ b = <<>> THEN (IF c = 0 THEN <<>> ELSE <<c>>)
  ELSE LET x == IF a = <<>> THEN 0 ELSE Head(a)
           y == IF b = <<>> THEN 0 ELSE Head(b)
           s == x + y + c
       IN <<s % 10000>> \o BigAddC(IF a = <<>> THEN <<>> ELSE Tail(a),
                                   IF b = <<>> THEN <<>> ELSE Tail(b),
                                   s \div 10000)

BigAdd(a, b) == BigAddC(a, b, 0)

\* a - b for a >= b
RECURSIVE BigSubC(_, _, _)
BigSubC(a, b, c) ==
  IF a = <<>> THEN <<>>
  ELSE LET y == IF b = <<>> THEN 0 ELSE Head(b)
           d == Head(a) - y - c
       IN <<IF d < 0 THEN d + 10000 ELSE d>>
          \o BigSubC(Tail(a), IF b = <<>> THEN <<>> ELSE Tail(b),
                     IF d < 0 THEN 1 ELSE 0)

BigSub(a, b) == BigTrim(BigSubC(a, b, 0))

\* -1, 0, 1 as a < b, a = b, a > b
RECURSIVE BigCmpFrom(_, _, _)
BigCmpFrom(a, b, i) ==
  IF i = 0 THEN 0
  ELSE IF a[i] < b[i] THEN -1
  ELSE IF a[i] > b[i] THEN 1
  ELSE BigCmpFrom(a, b, i - 1)

BigCmp(a, b) ==
  IF Len(a) < Len(b) THEN -1
  ELSE IF Len(a) > Len(b) THEN 1
  ELSE BigCmpFrom(a, b, Len(a))

\* a * d for one limb 0 <= d < 10000
RECURSIVE BigMulLimbC(_, _, _)
BigMulLimbC(a, d, c) ==
  IF a = <<>> THEN (IF c = 0 THEN <<>> ELSE <<c>>)
  ELSE LET p == Head(a) * d + c
       IN <<p % 10000>> \o BigMulLimbC(Tail(a), d, p \div 10000)

RECURSIVE BigMul(_, _)
BigMul(a, b) ==
  IF a = <<>> \/ b = <<>> THEN <<>>
  ELSE BigAdd(IF Head(b) = 0 THEN <<>> ELSE BigMulLimbC(a, Head(b), 0),
              LET r == BigMul(a, Tail(b))
              IN IF r = <<>> THEN <<>> ELSE <<0>> \o r)

ZOf(n) == IF n < 0 THEN [s |-> -1, m |-> BigOf(0 - n)]
          ELSE IF n = 0 THEN [s |-> 0, m |-> <<>>]
          ELSE [s |-> 1, m |-> BigOf(n)]

ZNeg(a) == [s |-> 0 - a.s, m |-> a.m]

ZAdd(a, b) ==
  IF a.s = 0 THEN b
  ELSE IF b.s = 0 THEN a
  ELSE IF a.s = b.s THEN [s |-> a.s, m |-> BigAdd(a.m, b.m)]
  ELSE LET c == BigCmp(a.m, b.m)
       IN IF c = 0 THEN [s |-> 0, m |-> <<>>]
          ELSE IF c > 0 THEN [s |-> a.s, m |-> BigSub(a.m, b.m)]
          ELSE [s |-> b.s, m |-> BigSub(b.m, a.m)]

ZSub(a, b) == ZAdd(a, ZNeg(b))

ZMul(a, b) == IF a.s = 0 \/ b.s = 0 THEN [s |-> 0, m |-> <<>>]
              ELSE [s |-> a.s * b.s, m |-> BigMul(a.m, b.m)]

\* -1, 0, 1 as a < b, a = b, a > b
ZCmp(a, b) == ZSub(a, b).s

\* the value of a natural number that fits a 32-bit integer
RECURSIVE BigToInt(_)
BigToInt(a) == IF a = <<>> THEN 0 ELSE Head(a) + 10000 * BigToInt(Tail(a))

\* a divided by 0 < d < 10000: the quotient's limbs (untrimmed) and the remainder
RECURSIVE BigDivLimb(_, _)
BigDivLimb(a, d) ==
  IF a = <<>> THEN [q |-> <<>>, r |-> 0]
  ELSE LET hi == BigDivLimb(Tail(a), d)
           cur == hi.r * 10000 + Head(a)
       IN [q |-> <<cur \div d>> \o hi.q, r |-> cur % d]

\* the largest d in lo..hi-1 with b * d <= a, given that lo is one and hi is none
RECURSIVE BigQuotLimb(_, _, _, _)
BigQuotLimb(a, b, lo, hi) ==
  IF hi - lo <= 1 THEN lo
  ELSE LET mid == (lo + hi) \div 2
       IN IF BigCmp(BigMulLimbC(b, mid, 0), a) <= 0
          THEN BigQuotLimb(a, b, mid, hi)
          ELSE BigQuotLimb(a, b, lo, mid)

\* a divided by b > 0, long division: the quotient's limbs (untrimmed) and the
\* remainder
RECURSIVE BigDivMod(_, _)
BigDivMod(a, b) ==
  IF a = <<>> THEN [q |-> <<>>, r |-> <<>>]
  ELSE LET hi == BigDivMod(Tail(a), b)
           cur == BigTrim(<<Head(a)>> \o hi.r)
           d == BigQuotLimb(cur, b, 0, 10000)
       IN [q |-> <<d>> \o hi.q, r |-> BigSub(cur, BigMulLimbC(b, d, 0))]

\* 2^k
RECURSIVE Pow2(_)
Pow2(k) ==
  IF k <= 13 THEN BigOf(2^k) ELSE BigMul(Pow2(k \div 2), Pow2(k - (k \div 2)))

Pow2Table == [k \in 0..448 |-> Pow2(k)]

\* the least k in lo..hi with a < 2^k, given that hi is one
RECURSIVE BitLenIn(_, _, _)
BitLenIn(a, lo, hi) ==
  IF lo = hi THEN lo
  ELSE LET mid == (lo + hi) \div 2
       IN IF BigCmp(a, Pow2Table[mid]) < 0
          THEN BitLenIn(a, lo, mid)
          ELSE BitLenIn(a, mid + 1, hi)

\* the number of bits of a
BitLen(a) ==
  IF a = <<>> THEN 0 ELSE BitLenIn(a, 13 * (Len(a) - 1) + 1, 14 * Len(a))

\* a * 2^k
BigShiftLeft(a, k) == IF k = 0 THEN a ELSE BigMul(a, Pow2Table[k])

\* floor(a / 2^k), and whether a nonzero remainder was dropped
RECURSIVE BigShiftRight(_, _)
BigShiftRight(a, k) ==
  IF k = 0 THEN [q |-> a, sticky |-> FALSE]
  ELSE LET step == IF k > 13 THEN 13 ELSE k
           d == BigDivLimb(a, 2^step)
           rest == BigShiftRight(BigTrim(d.q), k - step)
       IN [q |-> rest.q, sticky |-> rest.sticky \/ d.r # 0]

\* (a + f) / 2^k for k >= 1 rounded to the nearest integer, a tie going to the
\* even one; f is a fraction in [0, 1), nonzero iff sticky
BigRoundShift(a, k, sticky) ==
  LET sh == BigShiftRight(a, k - 1)
      half == BigDivLimb(sh.q, 2)
      fl == BigTrim(half.q)
      odd == fl # <<>> /\ fl[1] % 2 = 1
  IN IF half.r = 1 /\ (sh.sticky \/ sticky \/ odd) THEN BigAdd(fl, <<1>>) ELSE fl

\* the largest d in lo..hi-1 with (r + d * 10000^(i-1))^2 <= a, given that lo is
\* one and hi is none
RECURSIVE BigSqrtLimb(_, _, _, _, _)
BigSqrtLimb(a, r, i, lo, hi) ==
  IF hi - lo <= 1 THEN lo
  ELSE LET mid == (lo + hi) \div 2
           t == BigAdd(r, [j \in 1..i |-> IF j = i THEN mid ELSE 0])
       IN IF BigCmp(BigMul(t, t), a) <= 0
          THEN BigSqrtLimb(a, r, i, mid, hi)
          ELSE BigSqrtLimb(a, r, i, lo, mid)

\* floor(sqrt(a)), given its limbs above the i-th in r
RECURSIVE BigSqrtFrom(_, _, _)
BigSqrtFrom(a, r, i) ==
  IF i = 0 THEN r
  ELSE LET d == BigSqrtLimb(a, r, i, 0, 10000)
       IN BigSqrtFrom(a, IF d = 0 THEN r
                         ELSE BigAdd(r, [j \in 1..i |-> IF j = i THEN d ELSE 0]),
                      i - 1)

BigSqrt(a) == BigSqrtFrom(a, <<>>, (Len(a) + 1) \div 2)

(***************************************************************************)
(* Python floats: IEEE 754 binary64, every operation rounded to the        *)
(* nearest value of 53 significant bits, a tie going to the even one.  A   *)
(* float is s * m * 2^e with s its sign (0 for zero) and m < 2^53; values  *)
(* stay far from the overflow and subnormal ranges.                        *)
(***************************************************************************)
FloatZero == [s |-> 0, m |-> <<>>, e |-> 0]

\* s * (m + f) * 2^e rounded to a float; f is a fraction in [0, 1), nonzero iff
\* sticky, and m has at least 54 bits when sticky
FloatRound(s, m, e, sticky) ==
  LET len == BitLen(m)
  IN IF len <= 53 THEN [s |-> s, m |-> m, e |-> e]
     ELSE [s |-> s, m |-> BigRoundShift(m, len - 53, sticky), e |-> e + (len - 53)]

\* float(n) of an int
FloatInt(n) ==
  IF n = 0 THEN FloatZero ELSE [s |-> ZOf(n).s, m |-> ZOf(n).m, e |-> 0]

FloatNeg(a) == [s |-> 0 - a.s, m |-> a.m, e |-> a.e]

\* a and b as integers in units of 2^min(a.e, b.e)
FloatAligned(a, b) ==
  LET e == IF a.e < b.e THEN a.e ELSE b.e
  IN [e |-> e,
      a |-> [s |-> a.s, m |-> BigShiftLeft(a.m, a.e - e)],
      b |-> [s |-> b.s, m |-> BigShiftLeft(b.m, b.e - e)]]

\* a + b
FloatAdd(a, b) ==
  IF a.s = 0 THEN b
  ELSE IF b.s = 0 THEN a
  ELSE LET al == FloatAligned(a, b)
           sum == ZAdd(al.a, al.b)
       IN IF sum.s = 0 THEN FloatZero ELSE FloatRound(sum.s, sum.m, al.e, FALSE)

\* a - b
FloatSub(a, b) == FloatAdd(a, FloatNeg(b))

\* a * b
FloatMul(a, b) ==
  IF a.s = 0 \/ b.s = 0 THEN FloatZero
  ELSE FloatRound(a.s * b.s, BigMul(a.m, b.m), a.e + b.e, FALSE)

\* a / b, b nonzero
FloatDiv(a, b) ==
  IF a.s = 0 THEN FloatZero
  ELSE LET exact == BigDivMod(a.m, b.m)
           k == 55 + BitLen(b.m) - BitLen(a.m)
           scaled == BigDivMod(BigShiftLeft(a.m, k), b.m)
       IN IF exact.r = <<>>
          THEN [s |-> a.s * b.s, m |-> BigTrim(exact.q), e |-> a.e - b.e]
          ELSE FloatRound(a.s * b.s, BigTrim(scaled.q), a.e - b.e - k,
                          scaled.r # <<>>)

\* a ** 0.5, a >= 0
FloatSqrt(a) ==
  IF a.s = 0 THEN FloatZero
  ELSE LET k0 == IF BitLen(a.m) < 110 THEN 110 - BitLen(a.m) ELSE 0
           k == IF (a.e - k0) % 2 = 0 THEN k0 ELSE k0 + 1
           n == BigShiftLeft(a.m, k)
           r == BigSqrt(n)
       IN FloatRound(1, r, (a.e - k) \div 2, BigMul(r, r) # n)

\* -1, 0, 1 as a < b, a = b, a > b
FloatCmp(a, b) ==
  LET al == FloatAligned(a, b)
  IN ZCmp(al.a, al.b)

\* the float nearest to p / q, q > 0: a decimal literal, or the result of round()
FloatOf(p, q) == FloatDiv(FloatInt(p), FloatInt(q))

\* round(a * scale), 0 < scale < 10000: the nearest integer to the float's exact
\* value times scale, a tie going to the even one
FloatRoundTo(a, scale) ==
  IF a.s = 0 THEN 0
  ELSE LET n == BigMulLimbC(a.m, scale, 0)
       IN a.s * BigToInt(IF a.e >= 0 THEN BigShiftLeft(n, a.e)
                         ELSE BigRoundShift(n, 0 - a.e, FALSE))

\* sum(xs[lo..hi], start): the terms added one after the other, left to right;
\* the sum of the left half is a float before the right half is added to it
RECURSIVE FloatSumRange(_, _, _, _)
FloatSumRange(start, xs, lo, hi) ==
  IF lo > hi THEN start
  ELSE IF lo = hi THEN FloatAdd(start, xs[lo])
  ELSE LET mid == (lo + hi) \div 2
           left == FloatSumRange(start, xs, lo, mid)
       IN CASE left.s \in {-1, 0, 1} -> FloatSumRange(left, xs, mid + 1, hi)

\* sum(xs)
FloatSum(xs) == FloatSumRange(FloatZero, xs, 1, Len(xs))


(***************************************************************************)
(* Python values.  None is PyNone; a provider call returns a number,       *)
(* returns None (no scene matches, or the reducer found no pixel) or       *)
(* raises.                                                                 *)
(***************************************************************************)
PyNone == [kind |-> "absent", v |-> 0]
Val(x) == [kind |-> "value", v |-> x]
Raises == [kind |-> "raises", v |-> 0]

\* a faulty variant of HasValue: the test for None forgotten
NotRaised(answer) == answer.kind # "raises"

\* "if lst is not None" inside the try: the call returned, and returned a number
HasValue(answer) == answer.kind = "value"

\* round(): the nearest integer to num/den (den > 0), a tie going to the even one
RoundHalfEven(num, den) ==
  LET q == num \div den
      r == num % den
  IN IF 2 * r < den THEN q
     ELSE IF 2 * r > den THEN q + 1
     ELSE IF q % 2 = 0 THEN q ELSE q + 1

\* round(t, 2) of a temperature: thousandths to hundredths of a degree
Round2(t) == RoundHalfEven(t, 10)

\* round(v, 3) of an NDVI: ten-thousandths to thousandths
Round3(v) == RoundHalfEven(v, 10)

\* f"{ndvi:.2f}": ten-thousandths to hundredths
Fmt2f(v) == RoundHalfEven(v, 100)

(***************************************************************************)
(* categorize_heat_stress, src/app.py 85-96                                *)
(***************************************************************************)
StressLow == 30000
StressModerate == 38000
StressHigh == 45000

\* a faulty variant of categorize_heat_stress: each boundary in the cooler band
categorize_heat_stress_inclusive(temp) ==
  IF temp.kind = "absent" THEN PyNone
  ELSE IF temp.v <= StressLow
    THEN Val([level |-> "Low", color |-> "#22c55e",
              risk |-> "Minimal heat-related health risks"])
  ELSE IF temp.v <= StressModerate
    THEN Val([level |-> "Moderate", color |-> "#eab308",
              risk |-> "Caution advised for prolonged outdoor activities"])
  ELSE IF temp.v <= StressHigh
    THEN Val([level |-> "High", color |-> "#f97316",
              risk |-> "Heat exhaustion possible with extended exposure"])
  ELSE Val([level |-> "Extreme", color |-> "#ef4444",
            risk |-> "Heat stroke risk - limit outdoor activities"])

categorize_heat_stress(temp) ==
  IF temp.kind = "absent" THEN PyNone
  ELSE IF temp.v < StressLow
    THEN Val([level |-> "Low", color |-> "#22c55e",
              risk |-> "Minimal heat-related health risks"])
  ELSE IF temp.v < StressModerate
    THEN Val([level |-> "Moderate", color |-> "#eab308",
              risk |-> "Caution advised for prolonged outdoor activities"])
  ELSE IF temp.v < StressHigh
    THEN Val([level |-> "High", color |-> "#f97316",
              risk |-> "Heat exhaustion possible with extended exposure"])
  ELSE Val([level |-> "Extreme", color |-> "#ef4444",
            risk |-> "Heat stroke risk - limit outdoor activities"])

(***************************************************************************)
(* generate_recommendations, src/app.py 99-146.  An entry is its title and *)
(* its description, the description a tuple of its text pieces (the        *)
(* vegetation entries interpolate the formatted NDVI).                     *)
(***************************************************************************)
RecCritical == 40000
RecHigh == 35000
RecModerate == 30000
NdviCritical == 2000
NdviLow == 4000

CriticalEntries ==
  << [title |-> "Urgent Urban Forestry",
      desc |-> <<"High priority for immediate tree planting programs to provide shade and evaporative cooling.">>],
     [title |-> "Cool Pavement Implementation",
      desc |-> <<"Replace dark asphalt with reflective or permeable cool pavements to reduce heat absorption.">>],
     [title |-> "Green Roof Mandate",
      desc |-> <<"Implement green roof requirements for new and existing buildings in this zone.">>],
     [title |-> "Water Features",
      desc |-> <<"Install fountains, misting systems, or urban water bodies for localized cooling.">>] >>

HighEntries ==
  << [title |-> "Urban Forestry Priority",
      desc |-> <<"Recommended zone for tree planting initiatives and urban greening projects.">>],
     [title |-> "Cool Materials",
      desc |-> <<"Encourage use of high-albedo roofing and wall materials in construction.">>],
     [title |-> "Green Infrastructure",
      desc |-> <<"Promote green roofs, vertical gardens, and permeable surfaces.">>] >>

ModerateEntries ==
  << [title |-> "Vegetation Enhancement",
      desc |-> <<"Increase vegetation cover through parks and street plantings.">>],
     [title |-> "Building Guidelines",
      desc |-> <<"Recommend reflective building materials for new constructions.">>] >>

LowEntries ==
  << [title |-> "Maintain Current Conditions",
      desc |-> <<"Temperature levels are within comfortable range. Focus on preservation.">>] >>

VegetationEntries(ndvi) ==
  IF ndvi.kind = "absent" THEN <<>>
  ELSE IF ndvi.v < NdviCritical
    THEN << [title |-> "Critical Vegetation Deficit",
             desc |-> <<"NDVI: ", Fmt2f(ndvi.v),
                        " - Severely limited vegetation. Urgent need for green space development.">>] >>
  ELSE IF ndvi.v < NdviLow
    THEN << [title |-> "Low Vegetation Cover",
             desc |-> <<"NDVI: ", Fmt2f(ndvi.v),
                        " - Below optimal vegetation levels. Recommend increased planting.">>] >>
  ELSE <<>>

\* a faulty variant of generate_recommendations: no early return for a missing
\* temperature, which then falls into the last band
generate_recommendations_unguarded(temp, ndvi) ==
  IF temp.kind = "value" /\ temp.v >= RecCritical
    THEN [priority |-> "Critical",
          recommendations |-> CriticalEntries \o VegetationEntries(ndvi)]
  ELSE IF temp.kind = "value" /\ temp.v >= RecHigh
    THEN [priority |-> "High",
          recommendations |-> HighEntries \o VegetationEntries(ndvi)]
  ELSE IF temp.kind = "value" /\ temp.v >= RecModerate
    THEN [priority |-> "Moderate",
          recommendations |-> ModerateEntries \o VegetationEntries(ndvi)]
  ELSE [priority |-> "Low",
        recommendations |-> LowEntries \o VegetationEntries(ndvi)]

generate_recommendations(temp, ndvi) ==
  IF temp.kind = "absent" THEN [priority |-> "Low", recommendations |-> <<>>]
  ELSE IF temp.v >= RecCritical
    THEN [priority |-> "Critical",
          recommendations |-> CriticalEntries \o VegetationEntries(ndvi)]
  ELSE IF temp.v >= RecHigh
    THEN [priority |-> "High",
          recommendations |-> HighEntries \o VegetationEntries(ndvi)]
  ELSE IF temp.v >= RecModerate
    THEN [priority |-> "Moderate",
          recommendations |-> ModerateEntries \o VegetationEntries(ndvi)]
  ELSE [priority |-> "Low",
        recommendations |-> LowEntries \o VegetationEntries(ndvi)]

(***************************************************************************)
(* Exact numbers.  A Real is num/den + (cnum/cden) * sqrt(rad/rden) with   *)
(* den, cden, rden > 0, cnum >= 0 and rad >= 0 an unbounded integer: the   *)
(* shapes a mean, a sample standard deviation and mean + 1.5 * stdev take. *)
(***************************************************************************)
RECURSIVE SumRange(_, _, _)
SumRange(xs, lo, hi) ==
  IF lo > hi THEN 0
  ELSE IF lo = hi THEN xs[lo]
  ELSE LET mid == (lo + hi) \div 2
       IN SumRange(xs, lo, mid) + SumRange(xs, mid + 1, hi)

\* sum(xs)
Sum(xs) == SumRange(xs, 1, Len(xs))

\* sum(x * y for x, y in zip(xs, ys)), unbounded; each product fits, their sum
\* is taken in two lanes
SumProdZ(xs, ys) ==
  LET hi == [i \in 1..Len(xs) |-> (xs[i] * ys[i]) \div 10000]
      lo == [i \in 1..Len(xs) |-> (xs[i] * ys[i]) % 10000]
  IN ZAdd(ZMul(ZOf(Sum(hi)), ZOf(10000)), ZOf(Sum(lo)))

Min(S) == CHOOSE x \in S : \A y \in S : x <= y
Max(S) == CHOOSE x \in S : \A y \in S : x >= y
Range(xs) == {xs[i] : i \in 1..Len(xs)}

RealOf(num, den) ==
  [num |-> num, den |-> den, cnum |-> 0, cden |-> 1, rad |-> ZOf(0), rden |-> 1]

RealSqrt(rad, rden) ==
  [num |-> 0, den |-> 1, cnum |-> 1, cden |-> 1, rad |-> rad, rden |-> rden]

\* a + (cnum/cden) * s, for a rational a and a square root s
RealAxpy(a, cnum, cden, s) ==
  [num |-> a.num, den |-> a.den, cnum |-> cnum, cden |-> cden,
   rad |-> s.rad, rden |-> s.rden]

\* a + k, for a rational a and an integer k
RealAddInt(a, k) == RealOf(a.num + k * a.den, a.den)

\* the sign of x - p/q (q > 0): -1, 0, 1
RealCmp(x, p, q) ==
  LET M == ZSub(ZMul(ZOf(x.num), ZOf(q)), ZMul(ZOf(p), ZOf(x.den)))
      D == ZMul(ZOf(x.den), ZOf(q))
  IN IF x.cnum = 0 \/ x.rad.s = 0 THEN M.s
     ELSE IF M.s >= 0 THEN 1
     ELSE ZCmp(ZMul(ZMul(ZOf(x.cnum * x.cnum), x.rad), ZMul(D, D)),
               ZMul(ZMul(M, M), ZOf(x.cden * x.cden * x.rden)))

\* the largest k in lo..hi-1 with x >= (2k - 1) * unit / 2, given that lo is one
\* and hi is none
RECURSIVE RealRoundSearch(_, _, _, _)
RealRoundSearch(x, unit, lo, hi) ==
  IF hi - lo <= 1 THEN lo
  ELSE LET mid == (lo + hi) \div 2
       IN IF RealCmp(x, (2 * mid - 1) * unit, 2) >= 0
          THEN RealRoundSearch(x, unit, mid, hi)
          ELSE RealRoundSearch(x, unit, lo, mid)

\* round(x / unit) for 0 <= x < 32767 units: the nearest integer, a tie going
\* to the even one
RealRound(x, unit) ==
  LET k == RealRoundSearch(x, unit, 0, 32768)
  IN IF RealCmp(x, (2 * k - 1) * unit, 2) = 0 /\ k % 2 = 1 THEN k - 1 ELSE k

(***************************************************************************)
(* The 7x7 grid and the external measurement provider.                     *)
(***************************************************************************)
Offsets == <<-3, -2, -1, 0, 1, 2, 3>>

NumCells == Len(Offsets) * Len(Offsets)

\* the c-th cell of "for dx in offsets: for dy in offsets"
CellDx(c) == Offsets[((c - 1) \div Len(Offsets)) + 1]
CellDy(c) == Offsets[((c - 1) % Len(Offsets)) + 1]

VARIABLES
  api,          \* the function handling the request
  args,         \* the arguments of a direct call of a pure function
  lstData,      \* what get_lst answers at each cell, in this request's window
  ndviData,     \* what get_ndvi answers at each cell
  pc,           \* "sweep", "done"; "call", "return" for a pure function
  cell,         \* the number of grid cells the sweep has visited
  points, temps, raw_data, ndvi_values, paired_data,   \* the handler's lists
  calls,        \* the provider calls issued, in order
  response      \* the handler's response, or the pure function's result

vars == <<api, args, lstData, ndviData, pc, cell, points, temps, raw_data,
          ndvi_values, paired_data, calls, response>>

\* A provider's answers: those of the first cells one by one, and one answer
\* for every cell after them.
AnswerAt(data, c) ==
  IF c <= Len(data.prefix) THEN data.prefix[c] ELSE data.rest

get_lst(c) == AnswerAt(lstData, c)
get_ndvi(c) == AnswerAt(ndviData, c)

NoResponse == [status |-> 0]

(***************************************************************************)
(* heatmap_api, src/app.py 180-260                                         *)
(***************************************************************************)
IntensityCool == 20000
IntensitySpan == 30000
UhiFallback == 2000

HeatmapNoData == "No valid data found for this area"

\* a faulty variant of NoPoints: a single point taken for none
FewerThanTwoPoints(pts) == Len(pts) < 2

\* "if not points"
NoPoints(pts) == pts = <<>>

\* min(max((lst - 20) / 30, 0), 1), in 30000ths
HeatIntensity(lst) ==
  LET d == lst - IntensityCool
  IN IF d < 0 THEN 0 ELSE IF d > IntensitySpan THEN IntensitySpan ELSE d

\* sum(temps) / len(temps)
AvgTemp(ts) == RealOf(Sum(ts), Len(ts))

\* statistics.stdev(temps) if len(temps) > 1 else 0:
\* sqrt(sum((x - mean)^2) / (n - 1)) = sqrt((n * sum(x^2) - sum(x)^2) / (n * (n - 1)))
StdDev(ts) ==
  LET n == Len(ts)
      S == Sum(ts)
  IN IF n > 1
     THEN RealSqrt(ZSub(ZMul(ZOf(n), SumProdZ(ts, ts)), ZMul(ZOf(S), ZOf(S))),
                   n * (n - 1))
     ELSE RealOf(0, 1)

\* a faulty variant of UhiThreshold: two standard deviations above the mean
UhiThresholdTwoSigma(avg, sd) ==
  IF RealCmp(sd, 0, 1) > 0 THEN RealAxpy(avg, 2, 1, sd)
  ELSE RealAddInt(avg, UhiFallback)

\* avg_temp + (1.5 * std_dev) if std_dev > 0 else avg_temp + 2
UhiThreshold(avg, sd) ==
  IF RealCmp(sd, 0, 1) > 0 THEN RealAxpy(avg, 3, 2, sd)
  ELSE RealAddInt(avg, UhiFallback)

\* the entry appended for a point at or above the threshold
HotspotEntry(pd, avg) ==
  [lat |-> pd.lat, lon |-> pd.lon,
   temp |-> Round2(pd.temp),
   deviation |-> RoundHalfEven(pd.temp * avg.den - avg.num, 10 * avg.den),
   heat_stress |-> categorize_heat_stress(Val(pd.temp)).v]

\* for point_data in raw_data: if point_data["temp"] >= uhi_threshold: append
UhiHotspots(raw, thr, avg) ==
  LET AtOrAbove(pd) == RealCmp(thr, pd.temp, 1) <= 0
      hot == SelectSeq(raw, AtOrAbove)
  IN [i \in 1..Len(hot) |-> HotspotEntry(hot[i], avg)]

\* uhi_hotspots.sort(key=lambda x: x["temp"], reverse=True): a stable sort,
\* descending in the entry's "temp"
SortByTempDesc(hs) ==
  LET pos(i) == Cardinality({j \in 1..Len(hs) : hs[j].temp > hs[i].temp})
                + Cardinality({j \in 1..i : hs[j].temp = hs[i].temp})
  IN [p \in 1..Len(hs) |-> hs[CHOOSE i \in 1..Len(hs) : pos(i) = p]]

HeatStressSummary(ts) ==
  LET count(l) == Cardinality({i \in 1..Len(ts) :
                     categorize_heat_stress(Val(ts[i])).v.level = l})
  IN [Low |-> count("Low"), Moderate |-> count("Moderate"),
      High |-> count("High"), Extreme |-> count("Extreme")]

\* the code after the loop, lines 211-260
HeatmapResponse(pts, ts, raw) ==
  IF NoPoints(pts)
  THEN [status |-> 404, error |-> HeatmapNoData]
  ELSE LET avg_temp == AvgTemp(ts)
           std_dev == StdDev(ts)
           uhi_threshold == UhiThreshold(avg_temp, std_dev)
       IN [status |-> 200,
           points |-> pts,
           stats |-> [count |-> Len(pts),
                      min_temp |-> Round2(Min(Range(ts))),
                      max_temp |-> Round2(Max(Range(ts))),
                      avg_temp |-> RealRound(avg_temp, 10),
                      std_dev |-> RealRound(std_dev, 10),
                      uhi_threshold |-> RealRound(uhi_threshold, 10)],
           uhi_hotspots |->
             SortByTempDesc(UhiHotspots(raw, uhi_threshold, avg_temp)),
           heat_stress_summary |-> HeatStressSummary(ts),
           recommendations |->
             generate_recommendations(Val(Max(Range(ts))), PyNone)]

\* One pass of the loop body, lines 198-209, for the next cell; after the last
\* cell the rest of the handler runs.
HeatmapCell ==
  /\ api = "heatmap" /\ pc = "sweep" /\ cell < NumCells
  /\ LET c == cell + 1
         lst == get_lst(c)
         got == HasValue(lst)
         temps2 == IF got THEN Append(temps, lst.v) ELSE temps
         raw2 == IF got
                 THEN Append(raw_data, [lat |-> CellDx(c), lon |-> CellDy(c),
                                        temp |-> lst.v])
                 ELSE raw_data
         points2 == IF got
                    THEN Append(points, <<CellDx(c), CellDy(c), HeatIntensity(lst.v)>>)
                    ELSE points
     IN /\ calls' = Append(calls, [op |-> "get_lst", cell |-> c])
        /\ temps' = temps2
        /\ raw_data' = raw2
        /\ points' = points2
        /\ cell' = c
        /\ IF c = NumCells
           THEN /\ pc' = "done"
                /\ response' = HeatmapResponse(points2, temps2, raw2)
           ELSE UNCHANGED <<pc, response>>
  /\ UNCHANGED <<api, args, lstData, ndviData, ndvi_values, paired_data>>

(***************************************************************************)
(* ndvi_api, src/app.py 263-324                                            *)
(***************************************************************************)
NdviFloor == 2000
NdviSpan == 8000
VegBarren == 1000
VegSparse == 2000
VegModerate == 4000
VegGood == 6000

NdviNoData == "No valid NDVI data found"

\* max(0, min(1, (ndvi + 0.2) / 0.8)), in 8000ths
NdviIntensity(ndvi) ==
  LET d == ndvi + NdviFloor
  IN IF d > NdviSpan THEN NdviSpan ELSE IF d < 0 THEN 0 ELSE d

VegetationStatus(avg_ndvi) ==
  IF RealCmp(avg_ndvi, VegBarren, 1) < 0
    THEN [level |-> "Barren/Built-up", color |-> "#ef4444",
          desc |-> "Minimal vegetation - likely urban/built-up area"]
  ELSE IF RealCmp(avg_ndvi, VegSparse, 1) < 0
    THEN [level |-> "Sparse", color |-> "#f97316",
          desc |-> "Very sparse vegetation cover"]
  ELSE IF RealCmp(avg_ndvi, VegModerate, 1) < 0
    THEN [level |-> "Moderate", color |-> "#eab308",
          desc |-> "Moderate vegetation - mixed urban/green"]
  ELSE IF RealCmp(avg_ndvi, VegGood, 1) < 0
    THEN [level |-> "Good", color |-> "#84cc16",
          desc |-> "Good vegetation cover - parks/suburbs"]
  ELSE [level |-> "Dense", color |-> "#22c55e",
        desc |-> "Dense vegetation - forest/agricultural"]

\* the code after the loop, lines 298-324
NdviResponse(pts, vs) ==
  IF NoPoints(pts)
  THEN [status |-> 404, error |-> NdviNoData]
  ELSE LET avg_ndvi == RealOf(Sum(vs), Len(vs))
       IN [status |-> 200,
           points |-> pts,
           stats |-> [count |-> Len(pts),
                      min_ndvi |-> Round3(Min(Range(vs))),
                      max_ndvi |-> Round3(Max(Range(vs))),
                      avg_ndvi |-> RoundHalfEven(avg_ndvi.num, 10 * avg_ndvi.den)],
           vegetation_status |-> VegetationStatus(avg_ndvi)]

\* One pass of the loop body, lines 280-296; after the last cell the rest of
\* the handler runs.
NdviCell ==
  /\ api = "ndvi" /\ pc = "sweep" /\ cell < NumCells
  /\ LET c == cell + 1
         ndvi == get_ndvi(c)
         got == HasValue(ndvi)
         values2 == IF got THEN Append(ndvi_values, ndvi.v) ELSE ndvi_values
         points2 == IF got
                    THEN Append(points, [lat |-> CellDx(c), lon |-> CellDy(c),
                                         ndvi |-> Round3(ndvi.v),
                                         intensity |-> NdviIntensity(ndvi.v)])
                    ELSE points
     IN /\ calls' = Append(calls, [op |-> "get_ndvi", cell |-> c])
        /\ ndvi_values' = values2
        /\ points' = points2
        /\ cell' = c
        /\ IF c = NumCells
           THEN /\ pc' = "done"
                /\ response' = NdviResponse(points2, values2)
           ELSE UNCHANGED <<pc, response>>
  /\ UNCHANGED <<api, args, lstData, ndviData, temps, raw_data, paired_data>>

(***************************************************************************)
(* correlation_api, src/app.py 327-397.  paired_data holds hundredths of a *)
(* degree and thousandths of NDVI; the coefficient is computed in floats,  *)
(* operation by operation, because the code tests a float for != 0.        *)
(***************************************************************************)
MinPairs == 3

InsufficientData == "Insufficient data for correlation analysis"

\* a faulty variant of InsufficientPairs: two pairs accepted
FewerThanTwoPairs(paired) == Len(paired) < MinPairs - 1

\* "if len(paired_data) < 3"
InsufficientPairs(paired) == Len(paired) < MinPairs

\* a faulty variant of CorrelationCalls: get_lst asked again where it returned
\* None
CorrelationCallsRetrying(c, lst) ==
  IF lst.kind = "raises" THEN <<[op |-> "get_lst", cell |-> c]>>
  ELSE IF lst.kind = "absent"
    THEN <<[op |-> "get_lst", cell |-> c], [op |-> "get_lst", cell |-> c],
           [op |-> "get_ndvi", cell |-> c]>>
  ELSE <<[op |-> "get_lst", cell |-> c], [op |-> "get_ndvi", cell |-> c]>>

\* the provider calls of one pass of the loop body, lines 345-346: get_lst, then
\* get_ndvi unless get_lst raised
CorrelationCalls(c, lst) ==
  IF lst.kind = "raises" THEN <<[op |-> "get_lst", cell |-> c]>>
  ELSE <<[op |-> "get_lst", cell |-> c], [op |-> "get_ndvi", cell |-> c]>>

\* sum(xs) / n
FloatMean(xs) == FloatDiv(FloatSum(xs), FloatInt(Len(xs)))

\* sum((x - mean) ** 2 for x in xs) ** 0.5
Denominator(xs, mean) ==
  LET d == [i \in 1..Len(xs) |-> FloatSub(xs[i], mean)]
  IN FloatSqrt(FloatSum([i \in 1..Len(xs) |-> FloatMul(d[i], d[i])]))

\* lines 367-374: numerator / (denom_lst * denom_ndvi) if that product != 0 else 0
Correlation(xs, ys) ==
  LET mean_lst == FloatMean(xs)
      mean_ndvi == FloatMean(ys)
      numerator ==
        FloatSum([i \in 1..Len(xs) |->
                    FloatMul(FloatSub(xs[i], mean_lst), FloatSub(ys[i], mean_ndvi))])
      denom == FloatMul(Denominator(xs, mean_lst), Denominator(ys, mean_ndvi))
  IN IF denom.s # 0 THEN FloatDiv(numerator, denom) ELSE FloatZero

\* the literals -0.7, -0.4, -0.2 and 0.2
StrongBelow == FloatOf(-7, 10)
ModerateBelow == FloatOf(-4, 10)
WeakBelow == FloatOf(-2, 10)
NoneBelow == FloatOf(2, 10)

Interpretation(r) ==
  IF FloatCmp(r, StrongBelow) < 0
    THEN "Strong negative correlation: Higher vegetation strongly associated with lower temperatures"
  ELSE IF FloatCmp(r, ModerateBelow) < 0
    THEN "Moderate negative correlation: Vegetation helps reduce surface temperatures"
  ELSE IF FloatCmp(r, WeakBelow) < 0
    THEN "Weak negative correlation: Some cooling effect from vegetation observed"
  ELSE IF FloatCmp(r, NoneBelow) < 0
    THEN "No significant correlation detected in this area"
  ELSE "Unexpected positive correlation - may indicate data quality issues or unique local conditions"

\* [d["lst"] for d in paired_data], [d["ndvi"] for d in paired_data]: the floats
\* round() left in paired_data
LstValues(paired) == [i \in 1..Len(paired) |-> FloatOf(paired[i].lst, 100)]
NdviValues(paired) == [i \in 1..Len(paired) |-> FloatOf(paired[i].ndvi, 1000)]

\* the code after the loop, lines 359-397
CorrelationResponse(paired) ==
  IF InsufficientPairs(paired)
  THEN [status |-> 404, error |-> InsufficientData]
  ELSE LET lst_values == LstValues(paired)
           ndvi_vals == NdviValues(paired)
           correlation == Correlation(lst_values, ndvi_vals)
       IN [status |-> 200,
           data |-> paired,
           correlation |-> FloatRoundTo(correlation, 1000),
           interpretation |-> Interpretation(correlation),
           stats |-> [mean_lst |-> FloatRoundTo(FloatMean(lst_values), 100),
                      mean_ndvi |-> FloatRoundTo(FloatMean(ndvi_vals), 1000),
                      sample_size |-> Len(paired)]]

\* One pass of the loop body, lines 342-357: get_lst, then get_ndvi unless
\* get_lst raised; after the last cell the rest of the handler runs.
CorrelationCell ==
  /\ api = "correlation" /\ pc = "sweep" /\ cell < NumCells
  /\ LET c == cell + 1
         lst == get_lst(c)
         ndvi == get_ndvi(c)
         got == HasValue(lst) /\ HasValue(ndvi)
         paired2 ==
           IF got
           THEN Append(paired_data,
                       [lat |-> CellDx(c), lon |-> CellDy(c),
                        lst |-> Round2(lst.v), ndvi |-> Round3(ndvi.v),
                        heat_stress |-> categorize_heat_stress(lst).v.level])
           ELSE paired_data
     IN /\ calls' = calls \o CorrelationCalls(c, lst)
        /\ paired_data' = paired2
        /\ cell' = c
        /\ IF c = NumCells
           THEN /\ pc' = "done"
                /\ response' = CorrelationResponse(paired2)
           ELSE UNCHANGED <<pc, response>>
  /\ UNCHANGED <<api, args, lstData, ndviData, points, temps, raw_data,
                 ndvi_values>>

(***************************************************************************)
(* Direct calls of the two pure functions.                                 *)
(***************************************************************************)
CallCategorize ==
  /\ api = "categorize_heat_stress" /\ pc = "call"
  /\ response' = categorize_heat_stress(args[1])
  /\ pc' = "return"
  /\ UNCHANGED <<api, args, lstData, ndviData, cell, points, temps, raw_data,
                 ndvi_values, paired_data, calls>>

CallRecommend ==
  /\ api = "generate_recommendations" /\ pc = "call"
  /\ response' = generate_recommendations(args[1], args[2])
  /\ pc' = "return"
  /\ UNCHANGED <<api, args, lstData, ndviData, cell, points, temps, raw_data,
                 ndvi_values, paired_data, calls>>

(***************************************************************************)
(* The requests checked.  The provider's answers are free for the first    *)
(* Horizon cells of the traversal (one fewer for a correlation request,    *)
(* which asks two questions per cell) and the same for every later cell.   *)
(***************************************************************************)
Horizon == 4
CorrHorizon == Horizon - 1

HeatAnswers == {PyNone, Raises, Val(10000), Val(40000), Val(40004)}
HeatRest == {PyNone, Val(10000)}

NdviAnswers == {PyNone, Raises, Val(500), Val(7004)}
NdviRest == {PyNone, Val(3000)}

\* correlation requests, a cell being <<get_lst's answer, get_ndvi's answer>>:
\* sweeps whose cells fail in every way around one value (get_ndvi is not asked
\* where get_lst raises), and sweeps whose first cells all answer, with values
\* that differ, before the data runs out
CorrFaultyCells ==
  {<<Raises, PyNone>>} \cup ({PyNone, Val(2000)} \X {PyNone, Raises, Val(20000)})
CorrFaultyRest == {<<PyNone, PyNone>>, <<Val(2000), Val(20000)>>}
CorrValuedCells ==
  {<<Val(1000), Val(30000)>>, <<Val(2000), Val(20000)>>, <<Val(3000), Val(10000)>>,
   <<Val(3000), Val(25000)>>, <<Val(2004), Val(10000)>>, <<Val(30100), Val(1000)>>}
CorrValuedRest == {<<PyNone, PyNone>>}
CorrWorlds ==
  {[cells |-> CorrFaultyCells, rest |-> CorrFaultyRest],
   [cells |-> CorrValuedCells, rest |-> CorrValuedRest]}

NoData == [prefix |-> <<>>, rest |-> PyNone]

InitSweep(a, lst, ndvi) ==
  /\ api = a
  /\ args = <<>>
  /\ lstData = lst
  /\ ndviData = ndvi
  /\ pc = "sweep"
  /\ cell = 0
  /\ points = <<>> /\ temps = <<>> /\ raw_data = <<>>
  /\ ndvi_values = <<>> /\ paired_data = <<>>
  /\ calls = <<>>
  /\ response = NoResponse

InitHeatmap ==
  \E pre \in [1..Horizon -> HeatAnswers], rest \in HeatRest :
    InitSweep("heatmap", [prefix |-> pre, rest |-> rest], NoData)

InitNdvi ==
  \E pre \in [1..Horizon -> NdviAnswers], rest \in NdviRest :
    InitSweep("ndvi", NoData, [prefix |-> pre, rest |-> rest])

InitCorrelation ==
  \E w \in CorrWorlds :
    \E pre \in [1..CorrHorizon -> w.cells], rest \in w.rest :
      InitSweep("correlation",
                [prefix |-> [c \in 1..CorrHorizon |-> pre[c][1]], rest |-> rest[1]],
                [prefix |-> [c \in 1..CorrHorizon |-> pre[c][2]], rest |-> rest[2]])

Init == InitHeatmap \/ InitNdvi \/ InitCorrelation

Next == HeatmapCell \/ NdviCell \/ CorrelationCell

Spec == Init /\ [][Next]_vars

TempPoints ==
  {b + e : b \in {25000, 30000, 35000, 38000, 40000, 45000, 50000}, e \in {-1, 0, 1}}
  \cup {29900, 44999}
NdviPoints == {-1000, 0, 1999, 2000, 2001, 3999, 4000, 4001, 8000}
TempArgs == {PyNone} \cup {Val(t) : t \in TempPoints}
NdviArgs == {PyNone} \cup {Val(v) : v \in NdviPoints}

InitCall(f, a) ==
  /\ api = f
  /\ args = a
  /\ lstData = NoData
  /\ ndviData = NoData
  /\ pc = "call"
  /\ cell = 0
  /\ points = <<>> /\ temps = <<>> /\ raw_data = <<>>
  /\ ndvi_values = <<>> /\ paired_data = <<>>
  /\ calls = <<>>
  /\ response = NoResponse

InitFn ==
  \/ \E t \in TempArgs : InitCall("categorize_heat_stress", <<t>>)
  \/ \E t \in TempArgs, v \in NdviArgs : InitCall("generate_recommendations", <<t, v>>)

NextFn == CallCategorize \/ CallRecommend

SpecFn == InitFn /\ [][NextFn]_vars

(***************************************************************************)
(* Properties.  They read the provider's answers (lstData, ndviData) and   *)
(* the handler's lists and response; what a sweep should have kept is      *)
(* worked out from the provider's answers alone.                           *)
(***************************************************************************)

\* the provider gives the running sweep a value at cell c (both values, for a
\* correlation sweep)
Answered(c) ==
  IF api = "heatmap" THEN get_lst(c).kind = "value"
  ELSE IF api = "ndvi" THEN get_ndvi(c).kind = "value"
  ELSE get_lst(c).kind = "value" /\ get_ndvi(c).kind = "value"

\* the cells visited so far that answered, in traversal order
AnsweredCells == SelectSeq([c \in 1..cell |-> c], Answered)

AllExcluded == \A c \in 1..NumCells : ~Answered(c)

\* C1: every sweep visits all 49 cells in traversal order and ends with a
\* response, whatever the provider calls do; at every moment the sample lists
\* hold exactly the visited cells whose call(s) returned a value, each once, in
\* traversal order, and no cell whose call raised or returned None.
C1_SampleSetIsAnsweredCells ==
  LET K == AnsweredCells
      n == Len(K)
  IN /\ pc = "sweep" => cell < NumCells
     /\ pc = "done" => cell = NumCells /\ response.status \in {200, 404}
     /\ api = "heatmap" =>
          /\ raw_data = [i \in 1..n |-> [lat |-> CellDx(K[i]), lon |-> CellDy(K[i]),
                                         temp |-> get_lst(K[i]).v]]
          /\ temps = [i \in 1..n |-> get_lst(K[i]).v]
          /\ Len(points) = n
          /\ \A i \in 1..n : points[i][1] = CellDx(K[i]) /\ points[i][2] = CellDy(K[i])
          /\ pc = "done" /\ n > 0 => response.points = points
     /\ api = "ndvi" =>
          /\ ndvi_values = [i \in 1..n |-> get_ndvi(K[i]).v]
          /\ Len(points) = n
          /\ \A i \in 1..n : points[i].lat = CellDx(K[i]) /\ points[i].lon = CellDy(K[i])
          /\ pc = "done" /\ n > 0 => response.points = points
     /\ api = "correlation" =>
          /\ Len(paired_data) = n
          /\ \A i \in 1..n : /\ paired_data[i].lat = CellDx(K[i])
                             /\ paired_data[i].lon = CellDy(K[i])
                             /\ paired_data[i].lst = RoundHalfEven(get_lst(K[i]).v, 10)
                             /\ paired_data[i].ndvi = RoundHalfEven(get_ndvi(K[i]).v, 10)
          /\ pc = "done" /\ n >= 3 => response.data = paired_data

\* a finished heatmap sweep whose first call raised, whose second returned None
\* and whose other 47 cells are all in the sample set
C1_Witness ==
  /\ api = "heatmap" /\ pc = "done"
  /\ get_lst(1).kind = "raises" /\ get_lst(2).kind = "absent"
  /\ Len(raw_data) = NumCells - 2
  /\ response.status = 200

\* C2: a heatmap or NDVI sweep all of whose 49 cells are excluded ends in the
\* "no data" 404 response, which carries no statistic; a sweep with at least
\* one value never ends in it.
C2_NoDataIffAllExcluded ==
  (api \in {"heatmap", "ndvi"} /\ pc = "done") =>
    IF AllExcluded
    THEN response = [status |-> 404,
                     error |-> IF api = "heatmap"
                               THEN "No valid data found for this area"
                               ELSE "No valid NDVI data found"]
    ELSE /\ response.status = 200
         /\ response.stats.count = Cardinality({c \in 1..NumCells : Answered(c)})

\* a finished NDVI sweep in which calls raised and calls returned None, and no
\* call returned a value
C2_Witness ==
  /\ api = "ndvi" /\ pc = "done" /\ AllExcluded
  /\ \E c \in 1..NumCells : get_ndvi(c).kind = "raises"
  /\ \E c \in 1..NumCells : get_ndvi(c).kind = "absent"
  /\ response.status = 404

\* C3: correlation_api returns a coefficient only when at least 3 cells yielded
\* both values; with 0, 1 or 2 paired cells it returns the "insufficient data"
\* 404, whose message is not that of a "no data" response, and no coefficient.
C3_CoefficientNeedsThreePairs ==
  (api = "correlation" /\ pc = "done") =>
    LET k == Cardinality({c \in 1..NumCells : Answered(c)})
    IN IF k < 3
       THEN /\ response = [status |-> 404,
                           error |-> "Insufficient data for correlation analysis"]
            /\ response.error \notin {HeatmapNoData, NdviNoData}
       ELSE /\ response.status = 200
            /\ "correlation" \in DOMAIN response
            /\ response.stats.sample_size = k

\* a finished correlation sweep with exactly two paired cells
C3_Witness ==
  /\ api = "correlation" /\ pc = "done"
  /\ Len(paired_data) = 2
  /\ response.status = 404

\* the levels from the coolest to the hottest
LevelRank(level) ==
  CASE level = "Low" -> 0
    [] level = "Moderate" -> 1
    [] level = "High" -> 2
    [] level = "Extreme" -> 3

\* C4: categorize_heat_stress returns, for every temperature t, exactly one
\* level: Low iff t < 30, Moderate iff 30 <= t < 38, High iff 38 <= t < 45,
\* Extreme iff t >= 45; the level never falls as t rises; and None gives None.
C4_LevelBands ==
  (api = "categorize_heat_stress" /\ pc = "return") =>
    LET t == args[1]
    IN IF t.kind = "absent" THEN response = PyNone
       ELSE /\ response.kind = "value"
            /\ response.v.level \in {"Low", "Moderate", "High", "Extreme"}
            /\ response.v.level = "Low" <=> t.v < 30000
            /\ response.v.level = "Moderate" <=> (30000 <= t.v /\ t.v < 38000)
            /\ response.v.level = "High" <=> (38000 <= t.v /\ t.v < 45000)
            /\ response.v.level = "Extreme" <=> t.v >= 45000
            /\ \A u \in TempArgs :
                 (u.kind = "value" /\ u.v <= t.v) =>
                   LevelRank(categorize_heat_stress(u).v.level)
                     <= LevelRank(response.v.level)

\* categorize_heat_stress(30.0) has returned Moderate
C4_Witness ==
  /\ api = "categorize_heat_stress" /\ pc = "return"
  /\ args = <<Val(30000)>>
  /\ response.v.level = "Moderate"

\* C7: generate_recommendations returns priority Critical iff temp >= 40, High
\* iff 35 <= temp < 40, Moderate iff 30 <= temp < 35, Low otherwise, with the
\* band's fixed entries first and then at most one vegetation entry ("Critical
\* Vegetation Deficit" iff ndvi is given and < 0.2, "Low Vegetation Cover" iff
\* 0.2 <= ndvi < 0.4); with no temperature it returns priority Low and an
\* empty list for every ndvi.
C7_RecommendationBands ==
  (api = "generate_recommendations" /\ pc = "return") =>
    LET temp == args[1]
        ndvi == args[2]
        recs == response.recommendations
        band ==
          IF temp.kind = "absent" THEN <<>>
          ELSE IF temp.v >= 40000
            THEN <<"Urgent Urban Forestry", "Cool Pavement Implementation",
                   "Green Roof Mandate", "Water Features">>
          ELSE IF temp.v >= 35000
            THEN <<"Urban Forestry Priority", "Cool Materials", "Green Infrastructure">>
          ELSE IF temp.v >= 30000
            THEN <<"Vegetation Enhancement", "Building Guidelines">>
          ELSE <<"Maintain Current Conditions">>
        veg ==
          IF temp.kind = "absent" \/ ndvi.kind = "absent" THEN <<>>
          ELSE IF ndvi.v < 2000 THEN <<"Critical Vegetation Deficit">>
          ELSE IF ndvi.v < 4000 THEN <<"Low Vegetation Cover">>
          ELSE <<>>
    IN /\ response.priority =
            (IF temp.kind = "absent" THEN "Low"
             ELSE IF temp.v >= 40000 THEN "Critical"
             ELSE IF temp.v >= 35000 THEN "High"
             ELSE IF temp.v >= 30000 THEN "Moderate"
             ELSE "Low")
       /\ Len(recs) = Len(band) + Len(veg)
       /\ \A i \in 1..Len(recs) : recs[i].title = (band \o veg)[i]
       /\ temp.kind = "absent" => recs = <<>>

\* generate_recommendations(None, 0.1999) has returned priority Low and no entry
C7_Witness ==
  /\ api = "generate_recommendations" /\ pc = "return"
  /\ args = <<PyNone, Val(1999)>>
  /\ response = [priority |-> "Low", recommendations |-> <<>>]

\* C10 as stated: a sweep issues at most 49 provider calls, one after another
\* in traversal order, and asks nothing more about a cell after a call for it
\* failed or returned None.
C10_AtMost49Calls ==
  /\ Len(calls) <= 49
  /\ \A i \in 1..(Len(calls) - 1) :
       /\ calls[i].cell <= calls[i + 1].cell
       /\ calls[i].cell = calls[i + 1].cell =>
            (IF calls[i].op = "get_lst" THEN get_lst(calls[i].cell)
             ELSE get_ndvi(calls[i].cell)).kind = "value"

\* what a sweep may ask the provider about cell c: its one operation, and for
\* a correlation sweep get_lst and then, unless get_lst raised, get_ndvi
AllowedCalls(c) ==
  IF api = "heatmap" THEN <<[op |-> "get_lst", cell |-> c]>>
  ELSE IF api = "ndvi" THEN <<[op |-> "get_ndvi", cell |-> c]>>
  ELSE IF get_lst(c).kind = "raises" THEN <<[op |-> "get_lst", cell |-> c]>>
  ELSE <<[op |-> "get_lst", cell |-> c], [op |-> "get_ndvi", cell |-> c]>>

\* the allowed calls of the cells lo..hi, in traversal order
RECURSIVE AllowedCallsRange(_, _)
AllowedCallsRange(lo, hi) ==
  IF lo > hi THEN <<>>
  ELSE IF lo = hi THEN AllowedCalls(lo)
  ELSE LET mid == (lo + hi) \div 2
       IN AllowedCallsRange(lo, mid) \o AllowedCallsRange(mid + 1, hi)

\* C10 amended: a sweep visits the cells in traversal order and asks each
\* provider operation at most once per cell: heatmap_api and ndvi_api issue
\* exactly one call per visited cell, at most 49; correlation_api issues
\* get_lst and then, unless get_lst raised, get_ndvi for each visited cell, at
\* most 98 calls; no call is repeated.
C10_OneCallPerOperationPerCell ==
  /\ Len(calls) <= (IF api = "correlation" THEN 2 * 49 ELSE 49)
  /\ \A i \in 1..(Len(calls) - 1) :
       \/ calls[i].cell < calls[i + 1].cell
       \/ /\ calls[i].cell = calls[i + 1].cell
          /\ calls[i].op = "get_lst" /\ calls[i + 1].op = "get_ndvi"
  /\ calls = AllowedCallsRange(1, cell)

\* a finished correlation sweep in which get_lst raised at a cell and returned
\* None at another, and more than 49 calls were issued
C10_Witness ==
  /\ api = "correlation" /\ pc = "done"
  /\ \E c \in 1..NumCells : get_lst(c).kind = "raises"
  /\ \E c \in 1..NumCells : get_lst(c).kind = "absent"
  /\ Len(calls) > 49

\* the sum of the integers zs[lo..hi], unbounded
RECURSIVE ZSumRange(_, _, _)
ZSumRange(zs, lo, hi) ==
  IF lo > hi THEN ZOf(0)
  ELSE IF lo = hi THEN zs[lo]
  ELSE LET mid == (lo + hi) \div 2
       IN ZAdd(ZSumRange(zs, lo, mid), ZSumRange(zs, mid + 1, hi))

\* the temperatures the provider gave the sweep, in traversal order
MeasuredTemps == [i \in 1..Len(AnsweredCells) |-> get_lst(AnsweredCells[i]).v]

\* n * (x - mean) for each measured temperature x, n their number
ScaledDeviations ==
  LET xs == MeasuredTemps
  IN [i \in 1..Len(xs) |-> Len(xs) * xs[i] - Sum(xs)]

\* the measured temperatures at or above mean + 1.5 * s, s the sample standard
\* deviation, or at or above mean + 2 when s = 0 or there is one temperature:
\* with d = n * (x - mean) and D the sum of the d^2, s^2 = D / (n^2 * (n - 1)),
\* so x >= mean + 1.5 * s iff d >= 0 and 4 * (n - 1) * d^2 >= 9 * D
ExpectedHot ==
  LET d == ScaledDeviations
      n == Len(d)
      D == ZSumRange([i \in 1..n |-> ZMul(ZOf(d[i]), ZOf(d[i]))], 1, n)
  IN IF n > 1 /\ D.s # 0
     THEN {i \in 1..n :
             /\ d[i] >= 0
             /\ ZCmp(ZMul(ZOf(4 * (n - 1)), ZMul(ZOf(d[i]), ZOf(d[i]))),
                     ZMul(ZOf(9), D)) >= 0}
     ELSE {i \in 1..n : d[i] >= 2000 * n}

C6_HotspotsByMeasuredValue ==
  (api = "heatmap" /\ pc = "done" /\ response.status = 200) =>
    LET hs == response.uhi_hotspots
        CellOf(h) == CHOOSE c \in 1..NumCells : CellDx(c) = h.lat /\ CellDy(c) = h.lon
        Measured(h) == get_lst(CellOf(h)).v
    IN \A j \in 1..(Len(hs) - 1) :
         \/ Measured(hs[j]) > Measured(hs[j + 1])
         \/ /\ Measured(hs[j]) = Measured(hs[j + 1])
            /\ CellOf(hs[j]) < CellOf(hs[j + 1])

\* the values the provider gave the paired cells of a correlation sweep
MeasuredLst == [i \in 1..Len(AnsweredCells) |-> get_lst(AnsweredCells[i]).v]
MeasuredNdvi == [i \in 1..Len(AnsweredCells) |-> get_ndvi(AnsweredCells[i]).v]

\* C8: with at least 3 pairs, the coefficient is 0 and the interpretation "no
\* significant correlation" whenever either series has zero variance, and the
\* series [1, 2, 3] and [3, 2, 1] give -1, a strong negative correlation.
C8_ZeroVarianceGivesZero ==
  (api = "correlation" /\ pc = "done" /\ response.status = 200) =>
    /\ (Cardinality(Range(MeasuredLst)) = 1 \/ Cardinality(Range(MeasuredNdvi)) = 1) =>
         /\ response.correlation = 0
         /\ response.interpretation = "No significant correlation detected in this area"
    /\ (MeasuredLst = <<1000, 2000, 3000>> /\ MeasuredNdvi = <<30000, 20000, 10000>>) =>
         /\ response.correlation = -1000
         /\ response.interpretation =
              "Strong negative correlation: Higher vegetation strongly associated with lower temperatures"

\* C9: rounding touches only what is written into the response: the
\* coefficient, its interpretation and the two means of a correlation response
\* are those computed from the provider's unrounded values.
C9_DerivedFromUnroundedValues ==
  (api = "correlation" /\ pc = "done" /\ response.status = 200) =>
    LET xs == [i \in 1..Len(MeasuredLst) |-> FloatOf(MeasuredLst[i], 1000)]
        ys == [i \in 1..Len(MeasuredNdvi) |-> FloatOf(MeasuredNdvi[i], 10000)]
        r == Correlation(xs, ys)
    IN /\ response.correlation = FloatRoundTo(r, 1000)
       /\ response.interpretation = Interpretation(r)
       /\ response.stats.mean_lst = FloatRoundTo(FloatMean(xs), 100)
       /\ response.stats.mean_ndvi = FloatRoundTo(FloatMean(ys), 1000)

=============================================================================
